---------------------------- MODULE Spec2Model ----------------------------
(***************************************************************************)
(* A model of the emcli line-editing and command-dispatch engine           *)
(* (src/src/cli.c, src/inc/cli.h) and of the demo handlers it dispatches   *)
(* to (src/demo/cli_demo_commands.c).                                      *)
(*                                                                         *)
(* Bytes are naturals (their ASCII codes), C strings are sequences of      *)
(* non-zero bytes, and the line buffer is the whole array                  *)
(* char line[CLI_MAX_LINE_LENGTH], indexed from 0 as in the source, with   *)
(* the bytes behind len kept as the code leaves them.                      *)
(***************************************************************************)
EXTENDS Integers, Sequences, FiniteSets, TLC

VARIABLES
    s_cmd_table,  \* s_cmd_table.commands[0 .. count-1]; count is its length
    line,         \* s_cli.line, a function 0 .. CLI_MAX_LINE_LENGTH-1 -> byte
    pos,          \* s_cli.pos
    len,          \* s_cli.len
    state,        \* s_cli.state
    out,          \* the bytes the last operation wrote through s_io
    calls,        \* the handler invocations the last operation made
    last,         \* the last operation: its name, input byte, argument, result
    rx,           \* the bytes the input capability still holds (s_io->getchar)
    ins,          \* history: printable bytes accepted into the buffer
    del,          \* history: backspaces that removed a byte
    fault,        \* whether the last operation left the defined behaviour of C
    fmt,          \* the format string handed to cli_vprintf
    va            \* the variadic arguments handed to cli_vprintf

vars ==
    <<s_cmd_table, line, pos, len, state, out, calls, last, rx, ins, del,
      fault, fmt, va>>

(***************************************************************************)
(* Configuration macros.  The source defaults are 128, 16 and 16; each is  *)
(* an #ifndef default (cli.c:12-18, cli.h:16-18) and the model is built    *)
(* with small values.                                                      *)
(***************************************************************************)
CLI_MAX_LINE_LENGTH == 13
CLI_MAX_ARGS == 4
CLI_MAX_COMMANDS == 3

\* Bounds of the environment: how many printable bytes a host types into one
\* line, and how many insertions the editing history counts.
MaxTyped == 3
MaxIns == 4

(***************************************************************************)
(* Bytes the engine tests for or emits.                                    *)
(***************************************************************************)
NUL == 0
BEL == 7
BS == 8
TAB == 9
LF == 10
CR == 13
ESC == 27
SPACE == 32
QUOTE == 34
BACKSLASH == 92
LBRACKET == 91
DEL == 127
PRINT_LO == 32
PRINT_HI == 126
CH_A == 65
CH_B == 66
CH_C == 67
CH_D == 68
GETCHAR_NONE == -1

CLI_SUCCESS == 0
CLI_ERR_INVALID_PARAM == -1
CLI_ERR_TABLE_FULL == -2
CLI_ERR_DUPLICATE == -3

CLI_STATE_NORMAL == "NORMAL"
CLI_STATE_ESC == "ESC"
CLI_STATE_CSI == "CSI"

\* String literals of the source, as byte sequences.
STR_PROMPT == <<67, 76, 73, 62, 32>>                          \* "CLI> "
STR_CRLF == <<13, 10>>                                        \* "\r\n"
STR_UNKNOWN == <<85, 110, 107, 110, 111, 119, 110, 32, 99, 111, 109, 109, 97, 110, 100, 58, 32>>  \* "Unknown command: "
STR_CMD_ERROR == <<67, 111, 109, 109, 97, 110, 100, 32, 114, 101, 116, 117, 114, 110, 101, 100, 32, 101, 114, 114, 111, 114, 13, 10>>  \* "Command returned error\r\n"
STR_CR == <<13>>                                              \* "\r"
STR_HELP_HEADER == <<13, 10, 65, 118, 97, 105, 108, 97, 98, 108, 101, 32, 99, 111, 109, 109, 97, 110, 100, 115, 58, 13, 10>>  \* "\r\nAvailable commands:\r\n"
STR_DASH == <<32, 45, 32>>                                    \* " - "
STR_CLEAR_SEQ == <<27, 91, 50, 74, 27, 91, 72>>               \* "\033[2J\033[H"
STR_VERSION_TEXT == <<67, 76, 73, 32, 70, 114, 97, 109, 101, 119, 111, 114, 107, 32, 118, 101, 114, 115, 105, 111, 110, 32, 49, 46, 48, 13, 10>>  \* "CLI Framework version 1.0\r\n"
STR_LED == <<76, 69, 68, 32>>                                 \* "LED "
STR_SP == <<32>>                                              \* " "
STR_NL == <<10>>                                              \* "\n"
STR_INCOMPLETE == <<73, 110, 99, 111, 109, 112, 108, 101, 116, 101, 32, 112, 97, 114, 97, 109, 101, 116, 101, 114, 46, 13, 10>>  \* "Incomplete parameter.\r\n"
STR_INDENT == <<32, 32>>                                      \* "  "
STR_LPAREN == <<32, 40>>                                      \* " ("
STR_RPAREN == <<41>>                                          \* ")"

\* A null char pointer: a sequence no C string equals (a C string holds no
\* negative byte).  A null handler pointer.
NULL_STR == << -1 >>
NULL_FN == "NULL"

(***************************************************************************)
(* C string primitives.                                                    *)
(***************************************************************************)
\* strcmp(a, b) == 0 for two C strings.
StrEq(a, b) == a = b

\* The byte strncmp reads at 0-based offset i of C string s: the terminator
\* at and behind its end.
CharAt(s, i) == IF i < Len(s) THEN s[i + 1] ELSE NUL

\* strncmp(a, b, n) == 0: the first n bytes agree, the comparison stopping at
\* a terminator both strings hold at the same offset.
StrnEq(a, b, n) ==
    \A i \in 0 .. (n - 1) :
        \/ CharAt(a, i) = CharAt(b, i)
        \/ \E j \in 0 .. (i - 1) : CharAt(a, j) = NUL /\ CharAt(b, j) = NUL

\* Concatenation of a sequence of byte sequences.
RECURSIVE Flatten(_)
Flatten(ss) == IF ss = <<>> THEN <<>> ELSE Head(ss) \o Flatten(Tail(ss))

(***************************************************************************)
(* Command registry: cli_command_register, cli_get_command_count,          *)
(* cli_get_command_dsc.                                                    *)
(***************************************************************************)
\* A cli_command_t the host passes by pointer; isnull is the null pointer.
Cmd(n, s, h, f) == [isnull |-> FALSE, name |-> n, short_name |-> s, help |-> h, handler |-> f]
NULL_CMD == [isnull |-> TRUE, name |-> NULL_STR, short_name |-> NULL_STR, help |-> NULL_STR, handler |-> NULL_FN]

\* cli.c:82
InvalidParam(cmd) == cmd.isnull \/ cmd.name = NULL_STR \/ cmd.handler = NULL_FN

\* cli.c:88
TableFull_Mut(tbl) == Len(tbl) > CLI_MAX_COMMANDS
TableFull(tbl) == Len(tbl) >= CLI_MAX_COMMANDS

\* cli.c:95-105: the scan for an entry of the same long name.
NameTaken_Mut(tbl, cmd) ==
    \E i \in 1 .. Len(tbl) :
        tbl[i].short_name # NULL_STR /\ StrEq(tbl[i].short_name, cmd.name)
NameTaken(tbl, cmd) == \E i \in 1 .. Len(tbl) : StrEq(tbl[i].name, cmd.name)

\* cli.c:110-114: the entry stored in commands[count].
Stored(cmd) == [name |-> cmd.name, short_name |-> cmd.short_name, help |-> cmd.help, handler |-> cmd.handler]

\* cli_command_register: the result and the table after it.
RegisterResult_Mut(tbl, cmd) ==
    IF InvalidParam(cmd) THEN [rc |-> CLI_ERR_INVALID_PARAM, tbl |-> tbl]
    ELSE IF NameTaken(tbl, cmd) THEN [rc |-> CLI_ERR_DUPLICATE, tbl |-> tbl]
    ELSE IF TableFull(tbl) THEN [rc |-> CLI_ERR_TABLE_FULL, tbl |-> tbl]
    ELSE [rc |-> CLI_SUCCESS, tbl |-> Append(tbl, Stored(cmd))]
RegisterResult(tbl, cmd) ==
    IF InvalidParam(cmd) THEN [rc |-> CLI_ERR_INVALID_PARAM, tbl |-> tbl]
    ELSE IF TableFull(tbl) THEN [rc |-> CLI_ERR_TABLE_FULL, tbl |-> tbl]
    ELSE IF NameTaken(tbl, cmd) THEN [rc |-> CLI_ERR_DUPLICATE, tbl |-> tbl]
    ELSE [rc |-> CLI_SUCCESS, tbl |-> Append(tbl, Stored(cmd))]

cli_get_command_count == Len(s_cmd_table)

\* cli_get_command_dsc: the entry, or NULL_CMD for the null pointer.
cli_get_command_dsc(index) ==
    IF index < 0 \/ index >= Len(s_cmd_table) THEN NULL_CMD
    ELSE s_cmd_table[index + 1]

\* The table after the host registered cmds in order, from an empty table.
RECURSIVE RegisterAll(_, _)
RegisterAll(tbl, cmds) ==
    IF cmds = <<>> THEN tbl
    ELSE RegisterAll(RegisterResult(tbl, Head(cmds)).tbl, Tail(cmds))

\* The descriptors of the demo (cli_demo_commands.c:19-52) and descriptors a
\* host may pass besides them.
STR_help == <<104, 101, 108, 112>>
STR_h == <<104>>
STR_echo == <<101, 99, 104, 111>>
STR_e == <<101>>
STR_led == <<108, 101, 100>>
STR_l == <<108>>
STR_clear == <<99, 108, 101, 97, 114>>
STR_c == <<99>>
STR_version == <<118, 101, 114, 115, 105, 111, 110>>
STR_v == <<118>>
STR_hello == <<104, 101, 108, 108, 111>>
STR_x == <<120>>
STR_a == <<97>>
STR_HELPTEXT == <<63>>                                        \* a help text, "?"

cmd_help_struct == Cmd(STR_help, STR_h, STR_HELPTEXT, "cmd_help")
cmd_echo_struct == Cmd(STR_echo, STR_e, STR_HELPTEXT, "cmd_echo")
cmd_led_struct == Cmd(STR_led, STR_l, STR_HELPTEXT, "cmd_led")
cmd_clear_struct == Cmd(STR_clear, STR_c, STR_HELPTEXT, "cmd_clear")
cmd_version_struct == Cmd(STR_version, STR_v, STR_HELPTEXT, "cmd_version")
cmd_hello_struct == Cmd(STR_hello, STR_h, STR_HELPTEXT, "cmd_user")
cmd_h_struct == Cmd(STR_h, NULL_STR, STR_HELPTEXT, "cmd_user")
cmd_help2_struct == Cmd(STR_help, STR_x, NULL_STR, "cmd_user")
cmd_a_struct == Cmd(STR_a, NULL_STR, NULL_STR, "cmd_user")
cmd_noname_struct == Cmd(NULL_STR, STR_x, STR_HELPTEXT, "cmd_user")
cmd_nofn_struct == Cmd(STR_x, NULL_STR, STR_HELPTEXT, NULL_FN)

\* What the host of the registry specification may pass to register.
RegPool ==
    { cmd_help_struct, cmd_echo_struct, cmd_led_struct, cmd_clear_struct,
      cmd_version_struct, cmd_hello_struct, cmd_h_struct, cmd_help2_struct,
      cmd_noname_struct, cmd_nofn_struct, NULL_CMD }

(***************************************************************************)
(* Memory primitives over a char array mem, a function 0 .. N-1 -> byte.   *)
(***************************************************************************)
\* The byte at offset i.  No reachable state reads outside the array (the
\* last slot of the line buffer stays NUL, see LineTerminated).
MemAt(mem, i) == IF i \in DOMAIN mem THEN mem[i] ELSE NUL

\* The offset of the first NUL at or behind from: where strlen and every
\* scan for the terminator stop.
NulPos(mem, from) ==
    IF \E k \in DOMAIN mem : k >= from /\ mem[k] = NUL
    THEN CHOOSE k \in DOMAIN mem :
            /\ k >= from
            /\ mem[k] = NUL
            /\ \A j \in from .. (k - 1) : mem[j] # NUL
    ELSE Cardinality(DOMAIN mem)

\* The C string that starts at offset from.
CStrAt(mem, from) == [i \in 1 .. (NulPos(mem, from) - from) |-> mem[from + i - 1]]

\* The bytes mem[a .. b-1].
Slice(mem, a, b) == [i \in 1 .. (b - a) |-> mem[a + i - 1]]

\* memmove(&mem[dst], &mem[src], n).
Memmove(mem, dst, src, n) ==
    [i \in DOMAIN mem |->
        IF i >= dst /\ i < dst + n THEN MemAt(mem, src + (i - dst)) ELSE mem[i]]

\* strncpy(&mem[0], s, n) with n <= strlen(s): n bytes, no terminator.
CopyInto(mem, s, n) == [i \in DOMAIN mem |-> IF i < n THEN s[i + 1] ELSE mem[i]]

\* n copies of byte b.
Repeat(b, n) == [i \in 1 .. n |-> b]

(***************************************************************************)
(* The session s_cli as a record S = [line, pos, len, state], and the      *)
(* result of an operation on it: the session after it, the bytes written   *)
(* (out), the handlers invoked (calls) and the history increments.         *)
(***************************************************************************)
Res(ln, p, l, st, o, cl, di, dd) ==
    [line |-> ln, pos |-> p, len |-> l, state |-> st, out |-> o, calls |-> cl,
     ins |-> di, del |-> dd]

\* An operation that only writes o.
Emit(S, o) == Res(S.line, S.pos, S.len, S.state, o, <<>>, 0, 0)

\* cli.c:251: the room test of a printable insertion.
InsertAccepted_Any(S) == TRUE
InsertAccepted_Mut(S) == S.len < CLI_MAX_LINE_LENGTH
InsertAccepted(S) == S.len < CLI_MAX_LINE_LENGTH - 1

\* cli.c:265-278: the echo of an edit that left the cursor at p of l bytes:
\* the tail behind the cursor, then as many backspaces.
TailEcho(mem, p, l) ==
    IF p < l THEN Slice(mem, p, l) \o Repeat(BS, l - p) ELSE <<>>

\* cli.c:254-260: the array with the bytes at [pos, len) moved up by one.
ShiftedUp(S) ==
    IF S.pos < S.len THEN Memmove(S.line, S.pos + 1, S.pos, S.len - S.pos) ELSE S.line

\* cli.c:249-280: a printable byte in the normal state.
InsertPrintable(S, c) ==
    IF InsertAccepted(S)
    THEN Res([ShiftedUp(S) EXCEPT ![S.pos] = c], S.pos + 1, S.len + 1, S.state,
             <<c>> \o TailEcho([ShiftedUp(S) EXCEPT ![S.pos] = c], S.pos + 1, S.len + 1),
             <<>>, 1, 0)
    ELSE Emit(S, <<>>)

\* cli.c:311-312: the cursor and the length after a backspace.
BackspacePos_Mut(S) == S.pos
BackspacePos(S) == S.pos - 1
BackspaceLen(S) == S.len - 1

\* cli.c:308-310: the array with the bytes at [pos, len) moved down by one.
ShiftedDown(S) == Memmove(S.line, S.pos - 1, S.pos, S.len - S.pos)

\* cli_backspace, cli.c:303-333.
cli_backspace(S) ==
    IF S.pos > 0
    THEN Res(ShiftedDown(S), BackspacePos(S), BackspaceLen(S), S.state,
             <<BS, SPACE, BS>> \o TailEcho(ShiftedDown(S), BackspacePos(S), BackspaceLen(S)),
             <<>>, 0, 1)
    ELSE Emit(S, <<>>)

\* cli_redraw_line, cli.c:290-300: the bytes it writes.  cli_puts(s_cli.line)
\* writes the array up to its first NUL.
cli_redraw_line(S) ==
    STR_PROMPT \o CStrAt(S.line, 0)
        \o (IF S.len > S.pos THEN Repeat(BS, S.len - S.pos) ELSE <<>>)

\* cli.c:349 and cli.c:358: whether a slot matches the prefix, and on which
\* alias (the long name is tested first).
LongMatches(cmd, prefix, n) == StrnEq(prefix, cmd.name, n)
ShortMatches(cmd, prefix, n) ==
    cmd.short_name # NULL_STR /\ StrnEq(prefix, cmd.short_name, n)
SlotMatches(cmd, prefix, n) == LongMatches(cmd, prefix, n) \/ ShortMatches(cmd, prefix, n)
MatchedAlias_Mut(cmd, prefix, n) ==
    IF ShortMatches(cmd, prefix, n) THEN cmd.short_name ELSE cmd.name
MatchedAlias(cmd, prefix, n) ==
    IF LongMatches(cmd, prefix, n) THEN cmd.name ELSE cmd.short_name

\* cli.c:370-371: strncpy into matched_name, which cuts the alias to
\* matched_name_size - 1 bytes.
CutToName(alias) ==
    IF Len(alias) > CLI_MAX_LINE_LENGTH - 1
    THEN SubSeq(alias, 1, CLI_MAX_LINE_LENGTH - 1)
    ELSE alias

\* The least element of a non-empty set of slots.
FirstOf(hits) == CHOOSE i \in hits : \A j \in hits : i <= j

\* cli.c:368-374: the result for the set hits of matching slots.
MatchResult(tbl, prefix, hits) ==
    [count |-> Cardinality(hits),
     matched_name |->
        IF Cardinality(hits) = 1
        THEN CutToName(MatchedAlias(tbl[FirstOf(hits)], prefix, Len(prefix)))
        ELSE <<>>]

\* cli_find_command_matches, cli.c:339-375: the number of matching slots and,
\* for one match, matched_name: the first alias that matched.
cli_find_command_matches(tbl, prefix) ==
    MatchResult(tbl, prefix,
                { i \in 1 .. Len(tbl) : SlotMatches(tbl[i], prefix, Len(prefix)) })

\* cli.c:386-393: a space or a tab in [0, len).
HasWhitespace_Mut(S) == FALSE
HasWhitespace(S) ==
    \E i \in 0 .. (S.len - 1) : S.line[i] = SPACE \/ S.line[i] = TAB

\* cli.c:419: the completion's room test.
CompletionRefused(new_len) == new_len >= CLI_MAX_LINE_LENGTH - 1

\* cli.c:448-452: the test that puts a slot on the ambiguity listing.
Listed_Mut(cmd, prefix, word_len) == TRUE
Listed(cmd, prefix, word_len) == SlotMatches(cmd, prefix, word_len)

\* cli.c:444-464: the lines of the ambiguity listing, one per matching slot
\* in table order.
RECURSIVE ListMatches(_, _, _, _)
ListMatches(tbl, i, prefix, word_len) ==
    IF i > Len(tbl) THEN <<>>
    ELSE (IF Listed(tbl[i], prefix, word_len)
          THEN STR_INDENT \o tbl[i].name
                \o (IF tbl[i].short_name # NULL_STR
                    THEN STR_LPAREN \o tbl[i].short_name \o STR_RPAREN
                    ELSE <<>>)
                \o STR_CRLF
          ELSE <<>>)
         \o ListMatches(tbl, i + 1, prefix, word_len)

\* cli.c:400-402: strncpy(prefix, word_start, word_len); prefix[word_len] = 0.
PrefixOf(S) ==
    CStrAt([i \in 0 .. S.len |-> IF i < S.len THEN S.line[i] ELSE NUL], 0)

\* cli.c:432-437: the completion to name written into the buffer and redrawn.
Completed(S, name) ==
    Res(CopyInto(S.line, name, Len(name)), Len(name), Len(name), S.state,
        STR_CR \o cli_redraw_line([line |-> CopyInto(S.line, name, Len(name)),
                                   pos |-> Len(name), len |-> Len(name),
                                   state |-> S.state]),
        <<>>, 0, 0)

\* cli.c:407-466: what Tab does with the match result m for the prefix.
TabOnMatches(S, tbl, prefix, m) ==
    IF m.count = 0 THEN Emit(S, <<BEL>>)
    ELSE IF m.count = 1
    THEN IF Len(m.matched_name) > S.len
         THEN IF CompletionRefused(S.len + (Len(m.matched_name) - S.len))
              THEN Emit(S, <<BEL>>)
              ELSE Completed(S, m.matched_name)
         ELSE Emit(S, <<>>)
    ELSE Emit(S, STR_CRLF \o ListMatches(tbl, 1, prefix, S.len) \o cli_redraw_line(S))

\* cli.c:395-405: the prefix is the whole buffer.
TabOnPrefix(S, tbl, prefix) ==
    TabOnMatches(S, tbl, prefix, cli_find_command_matches(tbl, prefix))

\* cli_handle_tab, cli.c:378-467.
cli_handle_tab(S, tbl) ==
    IF HasWhitespace(S) THEN Emit(S, <<BEL>>) ELSE TabOnPrefix(S, tbl, PrefixOf(S))

(***************************************************************************)
(* Tokenizer and executor.                                                 *)
(***************************************************************************)
IsBlank(b) == b = SPACE \/ b = TAB

\* cli.c:521-524: the offset behind the blanks at p.
RECURSIVE SkipBlanks(_, _)
SkipBlanks(mem, p) == IF IsBlank(MemAt(mem, p)) THEN SkipBlanks(mem, p + 1) ELSE p

\* cli.c:554-557: the offset of the blank or NUL that ends a bare token.
RECURSIVE SkipWord(_, _)
SkipWord(mem, p) ==
    IF MemAt(mem, p) # NUL /\ ~IsBlank(MemAt(mem, p)) THEN SkipWord(mem, p + 1) ELSE p

\* cli.c:539-542: \" at p loses its backslash.
Unescaped(mem, p) ==
    IF MemAt(mem, p) = BACKSLASH /\ MemAt(mem, p + 1) = QUOTE
    THEN Memmove(mem, p, p + 1, NulPos(mem, p) - p)
    ELSE mem

\* cli.c:537-544: the scan of a quoted span from p with the flag in_quote,
\* which the loop tests and never changes.  The result is the array and the
\* offset the scan stops at.
RECURSIVE QuoteScan(_, _, _)
QuoteScan(mem, p, in_quote) ==
    IF MemAt(mem, p) # NUL /\ (MemAt(mem, p) # QUOTE \/ in_quote # 0)
    THEN QuoteScan(Unescaped(mem, p), p + 1, in_quote)
    ELSE [mem |-> mem, p |-> p]

RECURSIVE ParseLoop(_, _, _, _)

\* cli.c:560-566: a blank behind the token becomes its terminator, and the
\* token that starts at start is stored.
EndToken(mem, p, start, argv, max_args) ==
    IF IsBlank(MemAt(mem, p))
    THEN ParseLoop([mem EXCEPT ![p] = NUL], p + 1, Append(argv, start), max_args)
    ELSE ParseLoop(mem, p, Append(argv, start), max_args)

\* cli.c:545-550: a quote the scan stopped at becomes the terminator.
CloseQuote(scan, start, argv, max_args) ==
    IF MemAt(scan.mem, scan.p) = QUOTE
    THEN EndToken([scan.mem EXCEPT ![scan.p] = NUL], scan.p + 1, start, argv, max_args)
    ELSE EndToken(scan.mem, scan.p, start, argv, max_args)

\* cli.c:525-558: one token from q, the offset behind the blanks.
ParseToken(mem, q, argv, max_args) ==
    IF MemAt(mem, q) = NUL THEN [mem |-> mem, argv |-> argv]
    ELSE IF MemAt(mem, q) = QUOTE
    THEN CloseQuote(QuoteScan(mem, q + 1, 1), q + 1, argv, max_args)
    ELSE EndToken(mem, SkipWord(mem, q), q, argv, max_args)

\* cli.c:519-567: the token loop; argv holds the start offset of each token.
ParseLoop(mem, p, argv, max_args) ==
    IF MemAt(mem, p) # NUL /\ Len(argv) < max_args
    THEN ParseToken(mem, SkipBlanks(mem, p), argv, max_args)
    ELSE [mem |-> mem, argv |-> argv]

\* cli.c:566-570: what the finished loop r hands back.
Parsed(r) ==
    [argc |-> Len(r.argv),
     argv |-> [k \in 1 .. Len(r.argv) |-> CStrAt(r.mem, r.argv[k])],
     mem |-> r.mem,
     null_slot |-> Len(r.argv)]

\* cli_parse_line, cli.c:512-571: argc, the tokens argv[0 .. argc-1] as the
\* strings their pointers designate once the loop is done, the array as the
\* loop leaves it, and the index of the slot that receives the null marker.
cli_parse_line(mem, max_args) == Parsed(ParseLoop(mem, 0, <<>>, max_args))

(***************************************************************************)
(* Handlers.  The demo's handlers are modelled from                        *)
(* cli_demo_commands.c; "cmd_user" is a handler of the host that writes    *)
(* nothing and returns the result ret the environment chooses.             *)
(***************************************************************************)
\* cmd_help, cli_demo_commands.c:55-88.
RECURSIVE HelpLines(_, _)
HelpLines(tbl, i) ==
    IF i > Len(tbl) THEN <<>>
    ELSE STR_INDENT \o tbl[i].name
            \o (IF tbl[i].short_name # NULL_STR
                THEN STR_LPAREN \o tbl[i].short_name \o STR_RPAREN ELSE <<>>)
            \o STR_DASH
            \o (IF tbl[i].help # NULL_STR THEN tbl[i].help ELSE <<>>)
            \o STR_CRLF
            \o HelpLines(tbl, i + 1)
cmd_help(tbl) == STR_HELP_HEADER \o HelpLines(tbl, 1)

\* cmd_echo, cli_demo_commands.c:91-104.
RECURSIVE EchoArgs(_, _)
EchoArgs(argv, i) ==
    IF i > Len(argv) THEN <<>>
    ELSE (IF i > 2 THEN STR_SP ELSE <<>>) \o argv[i] \o EchoArgs(argv, i + 1)
cmd_echo(argv) == EchoArgs(argv, 2) \o STR_CRLF

\* cmd_led, cli_demo_commands.c:126-143.
cmd_led(argv) ==
    IF Len(argv) > 2 THEN STR_LED \o argv[2] \o STR_SP \o argv[3] \o STR_NL
    ELSE STR_INCOMPLETE

\* What handler h writes when called with argv.
HandlerOut(h, argv, tbl) ==
    CASE h = "cmd_help" -> cmd_help(tbl)
      [] h = "cmd_echo" -> cmd_echo(argv)
      [] h = "cmd_led" -> cmd_led(argv)
      [] h = "cmd_clear" -> STR_CLEAR_SEQ
      [] h = "cmd_version" -> STR_VERSION_TEXT
      [] OTHER -> <<>>

\* What handler h returns: the demo's handlers return 0.
HandlerRet(h, ret) == IF h = "cmd_user" THEN ret ELSE 0

\* cli.c:484-485: whether slot cmd answers to the token.
TokenMatches(cmd, tok) ==
    StrEq(tok, cmd.name) \/ (cmd.short_name # NULL_STR /\ StrEq(tok, cmd.short_name))

\* cli.c:505-508: the session with the buffer cleared, after writing o and
\* making the calls cl.
Cleared(S, o, cl) == Res([k \in DOMAIN S.line |-> NUL], 0, 0, S.state, o, cl, 0, 0)

\* cli.c:488-492: the handler h of the matching slot is called and returns r.
Invoked_Mut(S, tbl, P, h, r) ==
    Cleared(S, HandlerOut(h, P.argv, tbl),
            << [handler |-> h, argc |-> P.argc, argv |-> P.argv, ret |-> r] >>)
Invoked(S, tbl, P, h, r) ==
    Cleared(S,
            HandlerOut(h, P.argv, tbl) \o (IF r # 0 THEN STR_CMD_ERROR ELSE <<>>),
            << [handler |-> h, argc |-> P.argc, argv |-> P.argv, ret |-> r] >>)

\* cli.c:480-502: the first of the slots hits that answer to argv[0] is
\* dispatched to, or the token is reported unknown.
Dispatched(S, tbl, ret, P, hits) ==
    IF hits # {}
    THEN Invoked(S, tbl, P, tbl[FirstOf(hits)].handler,
                 HandlerRet(tbl[FirstOf(hits)].handler, ret))
    ELSE Cleared(S, STR_UNKNOWN \o P.argv[1] \o STR_CRLF, <<>>)

\* cli.c:478-509: what follows the tokenizer's result P.
Executed(S, tbl, ret, P) ==
    IF P.argc > 0
    THEN Dispatched(S, tbl, ret, P,
                    { i \in 1 .. Len(tbl) : TokenMatches(tbl[i], P.argv[1]) })
    ELSE Cleared(S, <<>>, <<>>)

\* cli_execute, cli.c:470-509.
cli_execute(S, tbl, ret) == Executed(S, tbl, ret, cli_parse_line(S.line, CLI_MAX_ARGS))

(***************************************************************************)
(* cli_process_char, cli.c:178-281.  ret is what a host handler returns    *)
(* if this byte makes the engine call one.                                 *)
(***************************************************************************)
IsPrintable(c) == c >= PRINT_LO /\ c <= PRINT_HI

\* cli.c:229-236: the newline before and the prompt behind the execution E.
Terminated(E) ==
    Res(E.line, E.pos, E.len, E.state, STR_CRLF \o E.out \o STR_PROMPT, E.calls, 0, 0)

\* cli.c:184-195: the byte behind an ESC.
EscByte_Mut(S, c) == Res(S.line, S.pos, S.len, CLI_STATE_CSI, <<>>, <<>>, 0, 0)
EscByte(S, c) ==
    IF c = LBRACKET
    THEN Res(S.line, S.pos, S.len, CLI_STATE_CSI, <<>>, <<>>, 0, 0)
    ELSE Res(S.line, S.pos, S.len, CLI_STATE_NORMAL, <<>>, <<>>, 0, 0)

\* cli.c:196-224: the final byte of a CSI sequence.
CsiByte(S, c) ==
    IF c = CH_C /\ S.pos < S.len
    THEN Res(S.line, S.pos + 1, S.len, CLI_STATE_NORMAL, <<c>>, <<>>, 0, 0)
    ELSE IF c = CH_D /\ S.pos > 0
    THEN Res(S.line, S.pos - 1, S.len, CLI_STATE_NORMAL, <<c>>, <<>>, 0, 0)
    ELSE Res(S.line, S.pos, S.len, CLI_STATE_NORMAL, <<>>, <<>>, 0, 0)

cli_process_char(S, tbl, c, ret) ==
    IF S.state # CLI_STATE_NORMAL
    THEN IF S.state = CLI_STATE_ESC THEN EscByte(S, c) ELSE CsiByte(S, c)
    ELSE IF c = CR \/ c = LF
         THEN Terminated(cli_execute(S, tbl, ret))
    ELSE IF c = BS \/ c = DEL THEN cli_backspace(S)
    ELSE IF c = TAB THEN cli_handle_tab(S, tbl)
    ELSE IF c = ESC
         THEN Res(S.line, S.pos, S.len, CLI_STATE_ESC, <<>>, <<>>, 0, 0)
    ELSE IF IsPrintable(c) THEN InsertPrintable(S, c)
    ELSE Emit(S, <<>>)

\* The session the variables hold.
Session == [line |-> line, pos |-> pos, len |-> len, state |-> state]

(***************************************************************************)
(* Undefined behaviour.  cli_parse_line ends with argv[argc] = NULL        *)
(* (cli.c:569); with argc = max_args that store is behind the array        *)
(* char *argv[CLI_MAX_ARGS] of cli_execute (cli.c:472).  What follows is   *)
(* not defined by C: the run either goes on ("overrun") or ends            *)
(* ("crash"), and the model takes both.                                    *)
(***************************************************************************)
FAULT_NONE == "none"
FAULT_OVERRUN == "overrun"
FAULT_CRASH == "crash"

\* Byte c makes cli_execute run and the marker store leaves argv.
ArgvOverrun(S, c) ==
    /\ S.state = CLI_STATE_NORMAL
    /\ (c = CR \/ c = LF)
    /\ cli_parse_line(S.line, CLI_MAX_ARGS).null_slot >= CLI_MAX_ARGS

\* What cli_process_char(c) can leave in fault.
Faults(S, c) ==
    IF ArgvOverrun(S, c) THEN { FAULT_OVERRUN, FAULT_CRASH } ELSE { FAULT_NONE }

\* The program is still running.
Running == fault # FAULT_CRASH

\* The action: the host calls cli_process_char(c).  With hist the history
\* counters follow the edit; without it they are left alone.
Feed(c, ret, hist) ==
    \E R \in { cli_process_char(Session, s_cmd_table, c, ret) } :
        /\ Running
        /\ fault' \in Faults(Session, c)
        /\ line' = R.line
        /\ pos' = R.pos
        /\ len' = R.len
        /\ state' = R.state
        /\ out' = R.out
        /\ calls' = R.calls
        /\ ins' = IF hist THEN ins + R.ins ELSE ins
        /\ del' = IF hist THEN del + R.del ELSE del
        /\ last' = [op |-> "feed", ch |-> c, rc |-> CLI_SUCCESS, cmd |-> NULL_CMD]
        /\ UNCHANGED <<s_cmd_table, rx, fmt, va>>

FeedChar(c, ret) == Feed(c, ret, FALSE)

\* The action: the host calls cli_ticks_handler (cli.c:143-151), which reads
\* one byte from the input capability, or the no-data value.
Tick_Mut(ret) ==
    IF rx = <<>>
    THEN /\ Running
         /\ out' = <<BEL>>
         /\ calls' = <<>>
         /\ last' = [op |-> "tick", ch |-> GETCHAR_NONE, rc |-> CLI_SUCCESS, cmd |-> NULL_CMD]
         /\ fault' = FAULT_NONE
         /\ UNCHANGED <<s_cmd_table, line, pos, len, state, rx, ins, del, fmt, va>>
    ELSE \E R \in { cli_process_char(Session, s_cmd_table, Head(rx), ret) } :
             /\ Running
             /\ fault' \in Faults(Session, Head(rx))
             /\ line' = R.line
             /\ pos' = R.pos
             /\ len' = R.len
             /\ state' = R.state
             /\ out' = R.out
             /\ calls' = R.calls
             /\ rx' = Tail(rx)
             /\ last' = [op |-> "tick", ch |-> Head(rx), rc |-> CLI_SUCCESS, cmd |-> NULL_CMD]
             /\ UNCHANGED <<s_cmd_table, ins, del, fmt, va>>
Tick(ret) ==
    IF rx = <<>>
    THEN /\ Running
         /\ out' = <<>>
         /\ calls' = <<>>
         /\ last' = [op |-> "tick", ch |-> GETCHAR_NONE, rc |-> CLI_SUCCESS, cmd |-> NULL_CMD]
         /\ fault' = FAULT_NONE
         /\ UNCHANGED <<s_cmd_table, line, pos, len, state, rx, ins, del, fmt, va>>
    ELSE \E R \in { cli_process_char(Session, s_cmd_table, Head(rx), ret) } :
             /\ Running
             /\ fault' \in Faults(Session, Head(rx))
             /\ line' = R.line
             /\ pos' = R.pos
             /\ len' = R.len
             /\ state' = R.state
             /\ out' = R.out
             /\ calls' = R.calls
             /\ rx' = Tail(rx)
             /\ last' = [op |-> "tick", ch |-> Head(rx), rc |-> CLI_SUCCESS, cmd |-> NULL_CMD]
             /\ UNCHANGED <<s_cmd_table, ins, del, fmt, va>>

\* The action: the host calls cli_init (cli.c:69-75), which clears the
\* session and leaves the command table.
CliInit_Mut ==
    /\ Running
    /\ fault' = FAULT_NONE
    /\ line' = [i \in DOMAIN line |-> NUL]
    /\ pos' = 0
    /\ len' = 0
    /\ state' = CLI_STATE_NORMAL
    /\ out' = STR_PROMPT
    /\ calls' = <<>>
    /\ last' = [op |-> "init", ch |-> GETCHAR_NONE, rc |-> CLI_SUCCESS, cmd |-> NULL_CMD]
    /\ s_cmd_table' = <<>>
    /\ UNCHANGED <<rx, ins, del, fmt, va>>
CliInit ==
    /\ Running
    /\ fault' = FAULT_NONE
    /\ line' = [i \in DOMAIN line |-> NUL]
    /\ pos' = 0
    /\ len' = 0
    /\ state' = CLI_STATE_NORMAL
    /\ out' = STR_PROMPT
    /\ calls' = <<>>
    /\ last' = [op |-> "init", ch |-> GETCHAR_NONE, rc |-> CLI_SUCCESS, cmd |-> NULL_CMD]
    /\ UNCHANGED <<s_cmd_table, rx, ins, del, fmt, va>>

NoLast == [op |-> "none", ch |-> GETCHAR_NONE, rc |-> CLI_SUCCESS, cmd |-> NULL_CMD]

\* A line buffer of zero bytes (memset, cli.c:72 and cli.c:508).
ZeroLine == [i \in 0 .. (CLI_MAX_LINE_LENGTH - 1) |-> NUL]

\* The action: the host calls cli_command_register(cmd).
Register(cmd) ==
    /\ Running
    /\ fault' = FAULT_NONE
    /\ s_cmd_table' = RegisterResult(s_cmd_table, cmd).tbl
    /\ last' = [op |-> "register", ch |-> GETCHAR_NONE,
                rc |-> RegisterResult(s_cmd_table, cmd).rc, cmd |-> cmd]
    /\ out' = <<>>
    /\ calls' = <<>>
    /\ UNCHANGED <<line, pos, len, state, rx, ins, del, fmt, va>>

\* The registry specification: register calls on an empty table, with the
\* session as cli_init leaves it.
InitReg ==
    /\ s_cmd_table = <<>>
    /\ line = ZeroLine
    /\ pos = 0
    /\ len = 0
    /\ state = CLI_STATE_NORMAL
    /\ out = STR_PROMPT
    /\ calls = <<>>
    /\ last = NoLast
    /\ rx = <<>>
    /\ ins = 0
    /\ del = 0
    /\ fault = FAULT_NONE
    /\ fmt = <<>>
    /\ va = <<>>

NextReg == \E cmd \in RegPool : Register(cmd)

SpecReg == InitReg /\ [][NextReg]_vars

(***************************************************************************)
(* The editing specification: a host that registered its commands and      *)
(* called cli_init feeds bytes to cli_process_char, at most MaxTyped       *)
(* printable bytes into one line.                                          *)
(***************************************************************************)
STR_he == <<104, 101>>
STR_eh == <<101, 104>>
STR_h_e == <<104, 32, 101>>                                   \* "h e"
cmd_he_struct == Cmd(STR_he, NULL_STR, NULL_STR, "cmd_user")
cmd_alias_struct == Cmd(STR_h_e, STR_eh, STR_HELPTEXT, "cmd_user")

Registries ==
    { RegisterAll(<<>>, <<cmd_help_struct, cmd_echo_struct>>),
      RegisterAll(<<>>, <<cmd_help_struct, cmd_echo_struct, cmd_he_struct>>),
      RegisterAll(<<>>, <<cmd_help_struct, cmd_alias_struct>>) }

CH_h == 104
CH_e == 101

\* The bytes the host of the editing specification feeds: the letters h and
\* e, the space, backspace and DEL, Tab, CR and LF, and the cursor keys as the terminal
\* sends them, ESC [ D and ESC [ C.
NormalBytes == { CH_h, CH_e, SPACE, BS, DEL, TAB, CR, LF, ESC }
KeyBytes ==
    IF state = CLI_STATE_NORMAL THEN NormalBytes
    ELSE IF state = CLI_STATE_ESC THEN { LBRACKET }
    ELSE { CH_D, CH_C }

\* What a host handler may return when byte c makes the engine call it.
HandlerResults(c) == IF c = CR \/ c = LF THEN { 0, 1 } ELSE { 0 }

\* The environment's bound on a line: a printable byte is typed into the
\* buffer only while fewer than MaxTyped bytes are in it.
WithinTyped(c) == (state = CLI_STATE_NORMAL /\ IsPrintable(c)) => len < MaxTyped

InitSession ==
    /\ line = ZeroLine
    /\ pos = 0
    /\ len = 0
    /\ state = CLI_STATE_NORMAL
    /\ out = STR_PROMPT
    /\ calls = <<>>
    /\ last = NoLast
    /\ rx = <<>>
    /\ ins = 0
    /\ del = 0
    /\ fault = FAULT_NONE
    /\ fmt = <<>>
    /\ va = <<>>

Init == s_cmd_table \in Registries /\ InitSession

Next ==
    \/ \E c \in KeyBytes : \E ret \in HandlerResults(c) :
            WithinTyped(c) /\ FeedChar(c, ret)
    \/ CliInit

Spec == Init /\ [][Next]_vars

\* The last slot of the line buffer is never written: every scan for the
\* terminator ends inside the array.
LineTerminated == line[CLI_MAX_LINE_LENGTH - 1] = NUL

(***************************************************************************)
(* The line specification: the input capability holds one typed line and   *)
(* its CR, and the host calls cli_ticks_handler.  The lines are all the    *)
(* strings of at most MaxLine bytes over a, space, double quote and        *)
(* backslash, and the line  echo "a b" c.                                  *)
(***************************************************************************)
MaxLine == 4

CH_a == 97
LineBytes == { CH_a, SPACE, QUOTE, BACKSLASH }

STR_a_b == <<97, 32, 98>>                                     \* "a b"
STR_c_arg == <<99>>                                           \* "c"
ECHO_LINE == <<101, 99, 104, 111, 32, 34, 97, 32, 98, 34, 32, 99>>  \* echo "a b" c

TypedLines ==
    UNION { [1 .. n -> LineBytes] : n \in 0 .. MaxLine } \cup { ECHO_LINE }

InitLine ==
    /\ s_cmd_table = RegisterAll(<<>>, <<cmd_help_struct, cmd_echo_struct, cmd_a_struct>>)
    /\ line = ZeroLine
    /\ pos = 0
    /\ len = 0
    /\ state = CLI_STATE_NORMAL
    /\ out = STR_PROMPT
    /\ calls = <<>>
    /\ last = NoLast
    /\ rx \in { typed \o <<CR>> : typed \in TypedLines }
    /\ ins = 0
    /\ del = 0
    /\ fault = FAULT_NONE
    /\ fmt = <<>>
    /\ va = <<>>

NextLine == \E ret \in { 0, 1 } : Tick(ret)

SpecLine == InitLine /\ [][NextLine]_vars

(***************************************************************************)
(* The filling specification: the host fills the line with x, types y      *)
(* once the buffer is full, and uses backspace and the cursor keys.        *)
(***************************************************************************)
CH_x == 120
CH_y == 121

FillBytes ==
    IF state = CLI_STATE_NORMAL
    THEN { CH_x, BS, ESC }
            \cup (IF len >= CLI_MAX_LINE_LENGTH - 1 THEN { CH_y } ELSE {})
    ELSE IF state = CLI_STATE_ESC THEN { LBRACKET }
    ELSE { CH_D, CH_C }

InitFill ==
    /\ s_cmd_table = RegisterAll(<<>>, <<cmd_help_struct, cmd_echo_struct>>)
    /\ InitSession

NextFill == \E c \in FillBytes : FeedChar(c, 0)

SpecFill == InitFill /\ [][NextFill]_vars

(***************************************************************************)
(* The history specification: insertions, backspaces and cursor keys on    *)
(* an empty buffer, with the accepted insertions and the effective         *)
(* backspaces counted; the host types at most MaxIns printable bytes.      *)
(***************************************************************************)
HistBytes ==
    IF state = CLI_STATE_NORMAL
    THEN { BS, DEL, ESC } \cup (IF ins < MaxIns THEN { CH_h, CH_e } ELSE {})
    ELSE IF state = CLI_STATE_ESC THEN { LBRACKET }
    ELSE { CH_D, CH_C }

InitHist ==
    /\ s_cmd_table = RegisterAll(<<>>, <<cmd_help_struct, cmd_echo_struct>>)
    /\ InitSession

NextHist == \E c \in HistBytes : Feed(c, 0, TRUE)

SpecHist == InitHist /\ [][NextHist]_vars

(***************************************************************************)
(* The keys specification: any byte in any input state, on a registry      *)
(* whose one name reaches the capacity of the line.  The host types x and  *)
(* sends the control bytes and the bytes of escape sequences, well-formed  *)
(* or not, whatever the input state.                                       *)
(***************************************************************************)
\* Names of CLI_MAX_LINE_LENGTH - 2, CLI_MAX_LINE_LENGTH - 1 and
\* CLI_MAX_LINE_LENGTH bytes.
STR_fit == Repeat(CH_x, CLI_MAX_LINE_LENGTH - 2)
STR_edge == Repeat(CH_x, CLI_MAX_LINE_LENGTH - 1)
STR_over == Repeat(CH_x, CLI_MAX_LINE_LENGTH)
cmd_fit_struct == Cmd(STR_fit, NULL_STR, NULL_STR, "cmd_user")
cmd_edge_struct == Cmd(STR_edge, NULL_STR, NULL_STR, "cmd_user")
cmd_over_struct == Cmd(STR_over, NULL_STR, NULL_STR, "cmd_user")

KeyRegistries ==
    { RegisterAll(<<>>, <<cmd_fit_struct>>),
      RegisterAll(<<>>, <<cmd_edge_struct>>),
      RegisterAll(<<>>, <<cmd_over_struct>>) }

AnyBytes ==
    IF state = CLI_STATE_NORMAL
    THEN { CH_x, BS, TAB, CR, ESC }
    ELSE IF state = CLI_STATE_ESC
    THEN { LBRACKET, ESC, CH_x, BS, TAB, CR, LF }
    ELSE { CH_A, CH_B, CH_C, CH_D, LBRACKET, ESC, CH_x, BS, TAB, CR, LF }

InitKeys == s_cmd_table \in KeyRegistries /\ InitSession

NextKeys == \E c \in AnyBytes : FeedChar(c, 0)

SpecKeys == InitKeys /\ [][NextKeys]_vars

(***************************************************************************)
(* The formatter, cli_vprintf (cli.c:574-675), for the conversion %d.  int *)
(* is a two's-complement integer of INT_BITS bits.                         *)
(***************************************************************************)
INT_BITS == 8

RECURSIVE Pow2(_)
Pow2(n) == IF n = 0 THEN 1 ELSE 2 * Pow2(n - 1)

INT_MIN == -Pow2(INT_BITS - 1)
INT_MAX == Pow2(INT_BITS - 1) - 1

CH_0 == 48
MINUS == 45
PERCENT == 37
CH_d == 100
STR_FMT_D == <<PERCENT, CH_d>>                                \* "%d"

\* The operators / and % of C on int: the quotient is cut towards zero and
\* the remainder has the sign of the dividend.
CDiv(a, b) == IF a >= 0 THEN a \div b ELSE -((-a) \div b)
CRem(a, b) == IF a >= 0 THEN a % b ELSE -((-a) % b)

FAULT_OVERFLOW == "overflow"

\* cli.c:590-594: val = -val.  The negation of INT_MIN overflows, which C
\* leaves undefined: the value wraps to INT_MIN or the run ends.
Negated(val) ==
    IF val = INT_MIN
    THEN { [val |-> INT_MIN, fault |-> FAULT_OVERFLOW],
           [val |-> INT_MIN, fault |-> FAULT_CRASH] }
    ELSE { [val |-> -val, fault |-> FAULT_NONE] }

\* cli.c:595-604: the do-while loop fills buf with '0' + val % 10 while
\* val /= 10 leaves val > 0, and buf is written from its last byte back.
RECURSIVE DigitLoop(_)
DigitLoop(val) ==
    IF CDiv(val, 10) > 0
    THEN DigitLoop(CDiv(val, 10)) \o <<CH_0 + CRem(val, 10)>>
    ELSE <<CH_0 + CRem(val, 10)>>

\* cli.c:587-606: case 'd' for the argument val: the bytes written and the
\* fault left.
FormatD(val) ==
    IF val < 0
    THEN { [out |-> IF n.fault = FAULT_CRASH THEN <<MINUS>>
                    ELSE <<MINUS>> \o DigitLoop(n.val),
            fault |-> n.fault] : n \in Negated(val) }
    ELSE { [out |-> DigitLoop(val), fault |-> FAULT_NONE] }

\* The action: the host calls cli_printf("%d", v) (cli.c:678-684).
Printf ==
    /\ Running
    /\ fmt = STR_FMT_D
    /\ Len(va) = 1
    /\ \E R \in FormatD(va[1]) :
            /\ out' = R.out
            /\ fault' = R.fault
    /\ calls' = <<>>
    /\ last' = [op |-> "printf", ch |-> GETCHAR_NONE, rc |-> CLI_SUCCESS, cmd |-> NULL_CMD]
    /\ UNCHANGED <<s_cmd_table, line, pos, len, state, rx, ins, del, fmt, va>>

\* The formatter specification: one int argument, every value of the type.
InitFmt ==
    /\ s_cmd_table = <<>>
    /\ line = ZeroLine
    /\ pos = 0
    /\ len = 0
    /\ state = CLI_STATE_NORMAL
    /\ out = STR_PROMPT
    /\ calls = <<>>
    /\ last = NoLast
    /\ rx = <<>>
    /\ ins = 0
    /\ del = 0
    /\ fault = FAULT_NONE
    /\ fmt = STR_FMT_D
    /\ va \in { <<v>> : v \in INT_MIN .. INT_MAX }

NextFmt == Printf

SpecFmt == InitFmt /\ [][NextFmt]_vars

(***************************************************************************)
(* The formatter, cli_vprintf (cli.c:574-675), for every format string.    *)
(* The format is read from a memory image: its bytes, its terminator, and  *)
(* then whatever the build has placed behind the terminator.               *)
(***************************************************************************)
CH_c == 99
CH_u == 117
CH_s == 115
CH_q == 113
STR_NULL == <<40, 110, 117, 108, 108, 41>>                       \* "(null)"
CHAR_BITS == 8

FAULT_OVERREAD == "overread"

\* The value of an int argument fetched as unsigned int (cli.c:610, 627).
UInt(v) == v % Pow2(INT_BITS)

\* cli.c:613-620: the loops of %u, most significant digit first.
RECURSIVE DigitLoopU(_)
DigitLoopU(val) ==
    IF val \div 10 > 0
    THEN DigitLoopU(val \div 10) \o <<CH_0 + (val % 10)>>
    ELSE <<CH_0 + (val % 10)>>

\* cli.c:631: one hexadecimal digit, lower case.
HexDigit(digit) == IF digit < 10 THEN CH_0 + digit ELSE CH_a + digit - 10

\* cli.c:629-637: the loops of %x, most significant digit first.
RECURSIVE DigitLoopX(_)
DigitLoopX(val) ==
    IF val \div 16 > 0
    THEN DigitLoopX(val \div 16) \o <<HexDigit(val % 16)>>
    ELSE <<HexDigit(val % 16)>>

\* The strings a %s argument can point to: address a is StrPool[a], and
\* address 0 is NULL.
StrPool == <<STR_he>>

\* cli.c:642-656: case 's'.  A pointer to no string is undefined
\* behaviour: the run ends.
FormatS(s) ==
    IF s = 0 THEN { [out |-> STR_NULL, fault |-> FAULT_NONE] }
    ELSE IF s \in 1 .. Len(StrPool) THEN { [out |-> StrPool[s], fault |-> FAULT_NONE] }
    ELSE { [out |-> <<>>, fault |-> FAULT_CRASH] }

\* cli.c:658-663: case 'c': the argument converted to char.
FormatC(v) == { [out |-> <<v % Pow2(CHAR_BITS)>>, fault |-> FAULT_NONE] }

\* cli.c:587-663: the cases of the switch that fetch an argument.
TakesArg(c) == c \in { CH_d, CH_u, CH_x, CH_s, CH_c }

\* cli.c:585-673: the switch on the byte behind a '%': the bytes written
\* and the fault left, for the argument arg where the case fetches one.
Conversion(c, arg) ==
    IF c = CH_d THEN FormatD(arg)
    ELSE IF c = CH_u THEN { [out |-> DigitLoopU(UInt(arg)), fault |-> FAULT_NONE] }
    ELSE IF c = CH_x THEN { [out |-> DigitLoopX(UInt(arg)), fault |-> FAULT_NONE] }
    ELSE IF c = CH_s THEN FormatS(arg)
    ELSE IF c = CH_c THEN FormatC(arg)
    ELSE IF c = PERCENT THEN { [out |-> <<PERCENT>>, fault |-> FAULT_NONE] }
    ELSE { [out |-> <<PERCENT, c>>, fault |-> FAULT_NONE] }

ArgAt(args, k) == IF k <= Len(args) THEN args[k] ELSE 0

\* One step of the loop followed by the rest of the loop: a run that has
\* ended writes nothing more.
Then(first, rest) ==
    IF first.fault = FAULT_CRASH THEN { first }
    ELSE { [out |-> first.out \o r.out,
            fault |-> IF r.fault # FAULT_NONE THEN r.fault ELSE first.fault] : r \in rest }

\* cli.c:576-674: the loop from position p of the memory image mem, whose
\* format's terminator is at position term, with the arguments args of
\* which k - 1 have been fetched.  The loop stops at the first NUL it reads
\* at p; the switch reads the byte at p + 1 whatever it is, and the loop
\* then goes on at p + 2.  A read behind the terminator is undefined
\* behaviour: it finds the bytes the image holds there, and behind the image
\* the run ends.
RECURSIVE cli_vprintf(_, _, _, _, _)
cli_vprintf(mem, p, term, args, k) ==
    IF p > Len(mem) THEN { [out |-> <<>>, fault |-> FAULT_CRASH] }
    ELSE IF mem[p] = NUL
    THEN { [out |-> <<>>, fault |-> IF p > term THEN FAULT_OVERREAD ELSE FAULT_NONE] }
    ELSE IF mem[p] # PERCENT
    THEN Then([out |-> <<mem[p]>>, fault |-> FAULT_NONE],
              cli_vprintf(mem, p + 1, term, args, k))
    ELSE IF TakesArg(mem[p + 1]) /\ k > Len(args)
    THEN { [out |-> <<>>, fault |-> FAULT_CRASH] }
    ELSE UNION { Then(c, cli_vprintf(mem, p + 2, term, args,
                                     IF TakesArg(mem[p + 1]) THEN k + 1 ELSE k))
                 : c \in Conversion(mem[p + 1], ArgAt(args, k)) }

\* The bytes of the formats the host passes, the longest format, and the
\* values of its int arguments.
FmtBytes == { PERCENT, CH_d, CH_c, CH_q }
MaxFmt == 3
ArgValues == { CH_A, -12 }
Formats == UNION { [1 .. n -> FmtBytes] : n \in 0 .. MaxFmt }

\* What the memory can hold behind the terminator of a format, up to the
\* next NUL.
Tails == { <<>>, <<CH_q>>, <<PERCENT>> }

\* The action: the host calls cli_printf(fmt, va...) (cli.c:678-684).
PrintfFmt ==
    /\ Running
    /\ last.op = "none"
    /\ \E tail \in Tails :
        \E R \in cli_vprintf(fmt \o <<NUL>> \o tail \o <<NUL>>, 1, Len(fmt) + 1, va, 1) :
            /\ out' = R.out
            /\ fault' = R.fault
    /\ calls' = <<>>
    /\ last' = [op |-> "vprintf", ch |-> GETCHAR_NONE, rc |-> CLI_SUCCESS, cmd |-> NULL_CMD]
    /\ UNCHANGED <<s_cmd_table, line, pos, len, state, rx, ins, del, fmt, va>>

\* The format specification: every format of the bytes above, with enough
\* int arguments for its conversions.
InitScan ==
    /\ s_cmd_table = <<>>
    /\ line = ZeroLine
    /\ pos = 0
    /\ len = 0
    /\ state = CLI_STATE_NORMAL
    /\ out = <<>>
    /\ calls = <<>>
    /\ last = NoLast
    /\ rx = <<>>
    /\ ins = 0
    /\ del = 0
    /\ fault = FAULT_NONE
    /\ fmt \in Formats
    /\ va \in { [i \in 1 .. MaxFmt |-> v] : v \in ArgValues }

NextScan == PrintfFmt

SpecScan == InitScan /\ [][NextScan]_vars

(***************************************************************************)
(* The lifetime specification: from an empty table the host registers      *)
(* commands, calls cli_init and feeds bytes, in any order.                 *)
(***************************************************************************)
LifePool ==
    { cmd_help_struct, cmd_echo_struct, cmd_led_struct, cmd_h_struct,
      cmd_help2_struct, NULL_CMD }
LifeBytes == { CH_h, TAB, CR }

InitLife ==
    /\ s_cmd_table = <<>>
    /\ InitSession

NextLife ==
    \/ \E cmd \in LifePool : Register(cmd)
    \/ \E c \in LifeBytes : \E ret \in HandlerResults(c) :
            WithinTyped(c) /\ FeedChar(c, ret)
    \/ CliInit

SpecLife == InitLife /\ [][NextLife]_vars

(***************************************************************************)
(* The arguments specification: the host types lines of the letter a and   *)
(* spaces, long enough for CLI_MAX_ARGS + 1 one-letter tokens, and         *)
(* terminates them.                                                        *)
(***************************************************************************)
ArgBytes == { CH_a, SPACE, CR }

\* The environment's bound on a line of this specification.
WithinArgs(c) == IsPrintable(c) => len < 2 * CLI_MAX_ARGS + 1

InitArgs ==
    /\ s_cmd_table = RegisterAll(<<>>, <<cmd_help_struct, cmd_echo_struct, cmd_a_struct>>)
    /\ InitSession

NextArgs == \E c \in ArgBytes : WithinArgs(c) /\ FeedChar(c, 0)

SpecArgs == InitArgs /\ [][NextArgs]_vars

(***************************************************************************)
(* Claims about the registry, checked under SpecReg.                       *)
(***************************************************************************)
\* The long names a table holds.
LongNames(tbl) == { tbl[i].name : i \in 1 .. Len(tbl) }

\* A step that is a register call of cmd.
IsRegisterOf(cmd) == last'.op = "register" /\ last'.cmd = cmd

\* C3: from an empty registry, a valid entry whose long name is not yet
\* registered is accepted while fewer than CLI_MAX_COMMANDS entries are
\* stored; once CLI_MAX_COMMANDS are stored every valid registration returns
\* CLI_ERR_TABLE_FULL and leaves cli_get_command_count() at CLI_MAX_COMMANDS;
\* the count never exceeds CLI_MAX_COMMANDS.
C3_Capacity ==
    /\ [](cli_get_command_count <= CLI_MAX_COMMANDS)
    /\ [][\A cmd \in RegPool :
            (IsRegisterOf(cmd) /\ ~InvalidParam(cmd)) =>
                IF cli_get_command_count = CLI_MAX_COMMANDS
                THEN /\ last'.rc = CLI_ERR_TABLE_FULL
                     /\ cli_get_command_count' = CLI_MAX_COMMANDS
                     /\ s_cmd_table' = s_cmd_table
                ELSE (cmd.name \notin LongNames(s_cmd_table)) =>
                     /\ last'.rc = CLI_SUCCESS
                     /\ cli_get_command_count' = cli_get_command_count + 1]_vars

\* C3 witness: a valid registration was refused with the table full.
C3_Witness ==
    /\ last.op = "register"
    /\ ~InvalidParam(last.cmd)
    /\ last.rc = CLI_ERR_TABLE_FULL
    /\ cli_get_command_count = CLI_MAX_COMMANDS
    /\ Cardinality(LongNames(s_cmd_table)) = CLI_MAX_COMMANDS

\* C4: registering an entry whose long name is already registered, with the
\* table not full, returns CLI_ERR_DUPLICATE and changes neither the count
\* nor any stored entry.
C4_Duplicate ==
    [][\A cmd \in RegPool :
        (/\ IsRegisterOf(cmd)
         /\ ~InvalidParam(cmd)
         /\ cli_get_command_count < CLI_MAX_COMMANDS
         /\ cmd.name \in LongNames(s_cmd_table)) =>
            /\ last'.rc = CLI_ERR_DUPLICATE
            /\ cli_get_command_count' = cli_get_command_count
            /\ s_cmd_table' = s_cmd_table]_vars

\* C4 witness: a second entry named like a stored one, and differing from it
\* in short name, help and handler, was refused as a duplicate.
C4_Witness ==
    /\ last.op = "register"
    /\ last.rc = CLI_ERR_DUPLICATE
    /\ \E i \in 1 .. Len(s_cmd_table) :
        /\ s_cmd_table[i].name = last.cmd.name
        /\ s_cmd_table[i].short_name # last.cmd.short_name
        /\ s_cmd_table[i].handler # last.cmd.handler

\* C5 (as claimed): no two entries share a long name, no two entries share a
\* short name, and no entry's long name is another entry's short name.
C5_NamesUnique ==
    \A i, j \in 1 .. Len(s_cmd_table) :
        (i # j) =>
            /\ s_cmd_table[i].name # s_cmd_table[j].name
            /\ (s_cmd_table[i].short_name # NULL_STR =>
                    s_cmd_table[i].short_name # s_cmd_table[j].short_name)
            /\ s_cmd_table[i].name # s_cmd_table[j].short_name

(***************************************************************************)
(* Claims about editing, completion and execution, checked under Spec.     *)
(***************************************************************************)
\* The buffer content: the bytes at [0, len).
Content == Slice(line, 0, len)

\* p is a prefix of s.
IsPrefixOf(p, s) == Len(p) <= Len(s) /\ SubSeq(s, 1, Len(p)) = p

\* p is a prefix of entry e's long name or of its short name.
EntryMatches(e, p) ==
    IsPrefixOf(p, e.name) \/ (e.short_name # NULL_STR /\ IsPrefixOf(p, e.short_name))

\* The first alias of e that p is a prefix of, the long name tested first.
FirstAlias(e, p) == IF IsPrefixOf(p, e.name) THEN e.name ELSE e.short_name

\* The slots whose entry the buffer content is a prefix of.
Matching == { i \in 1 .. Len(s_cmd_table) : EntryMatches(s_cmd_table[i], Content) }

\* The buffer holds no space and no tab.
BlankFree == \A i \in 0 .. (len - 1) : line[i] # SPACE /\ line[i] # TAB

\* A step that feeds byte c in the normal state.
FedInNormal(c) == state = CLI_STATE_NORMAL /\ last'.op = "feed" /\ last'.ch = c

\* A line buffer that holds exactly the content and NUL behind it.
CleanSession ==
    [line |-> [i \in DOMAIN line |-> IF i < len THEN line[i] ELSE NUL],
     pos |-> pos, len |-> len, state |-> state]

\* C2 (as claimed): a line terminator tokenizes and executes exactly the
\* bytes at [0, len): the handler invoked, its arguments and the bytes
\* written are those of executing a buffer that holds the content alone.
C2_ExecutesContent ==
    [][(FedInNormal(CR) \/ FedInNormal(LF)) =>
        \E ret \in { 0, 1 } :
            /\ calls' = cli_execute(CleanSession, s_cmd_table, ret).calls
            /\ out' = STR_CRLF \o cli_execute(CleanSession, s_cmd_table, ret).out
                        \o STR_PROMPT]_vars

ListingLine(e) ==
    STR_INDENT \o e.name
        \o (IF e.short_name # NULL_STR
            THEN STR_LPAREN \o e.short_name \o STR_RPAREN ELSE <<>>)
        \o STR_CRLF

\* The listing lines of the matching entries, in table order.
ExpectedListing ==
    Flatten([i \in 1 .. Len(s_cmd_table) |->
                IF i \in Matching THEN ListingLine(s_cmd_table[i]) ELSE <<>>])

\* C7: Tab on a blank-free buffer that is a prefix of two or more entries
\* writes a newline, one line per matching entry in registration order and
\* none for the others, then the prompt; the buffer, the length and the
\* cursor are left as they were.
C7_AmbiguousLists ==
    [][(FedInNormal(TAB) /\ BlankFree /\ Cardinality(Matching) >= 2) =>
        LET head == STR_CRLF \o ExpectedListing \o STR_PROMPT
        IN  /\ Len(out') >= Len(head)
            /\ SubSeq(out', 1, Len(head)) = head
            /\ line' = line
            /\ len' = len
            /\ pos' = pos
            /\ state' = state]_vars

\* C7 witness: with help, echo and he registered and the cursor before the
\* "h" of the buffer, Tab listed help and he.
C7_Witness ==
    /\ last.op = "feed"
    /\ last.ch = TAB
    /\ Len(s_cmd_table) = 3
    /\ Content = STR_h
    /\ pos = 0
    /\ out = STR_CRLF \o ListingLine(s_cmd_table[1]) \o ListingLine(s_cmd_table[3])
                \o STR_PROMPT \o STR_h \o <<BS>>

\* C8: Tab on a buffer that holds a space or a tab writes one bell and
\* nothing else, and leaves the buffer, the length, the cursor and the input
\* state as they were.
C8_BlankRefusesTab ==
    [][(FedInNormal(TAB) /\ ~BlankFree) =>
        /\ out' = <<BEL>>
        /\ calls' = <<>>
        /\ line' = line
        /\ len' = len
        /\ pos' = pos
        /\ state' = state]_vars

\* C8 witness: Tab was refused on the buffer "h ", which a registered name
\* ("h e") starts with.
C8_Witness ==
    /\ last.op = "feed"
    /\ last.ch = TAB
    /\ Content = <<CH_h, SPACE>>
    /\ \E i \in 1 .. Len(s_cmd_table) : IsPrefixOf(Content, s_cmd_table[i].name)
    /\ out = <<BEL>>

(***************************************************************************)
(* Claims about the tokenizer, checked under SpecLine.                     *)
(***************************************************************************)
\* sub occurs in seq.
Contains(seq, sub) ==
    \E i \in 1 .. (Len(seq) - Len(sub) + 1) : SubSeq(seq, i, i + Len(sub) - 1) = sub

\* C1 (as claimed): the line  echo "a b" c  typed into an empty buffer and
\* terminated by CR runs the echo handler with argc = 3 and
\* argv = ["echo", "a b", "c"], and writes no "Unknown command".
C1_QuotedToken ==
    [][(/\ state = CLI_STATE_NORMAL
        /\ Content = ECHO_LINE
        /\ line = CleanSession.line
        /\ last'.op = "tick"
        /\ last'.ch = CR) =>
            /\ Len(calls') = 1
            /\ calls'[1].handler = "cmd_echo"
            /\ calls'[1].argc = 3
            /\ calls'[1].argv = <<STR_echo, STR_a_b, STR_c_arg>>
            /\ ~Contains(out', STR_UNKNOWN)]_vars

(***************************************************************************)
(* Claims about the full buffer, checked under SpecFill.                   *)
(***************************************************************************)
\* C9: a printable byte fed in the normal state to a buffer of
\* CLI_MAX_LINE_LENGTH - 1 bytes, at any cursor position, changes neither
\* the buffer nor the length nor the cursor, and writes nothing.
C9_FullDrops ==
    [][\A c \in PRINT_LO .. PRINT_HI :
        (FedInNormal(c) /\ len = CLI_MAX_LINE_LENGTH - 1) =>
            /\ line' = line
            /\ len' = len
            /\ pos' = pos
            /\ state' = state
            /\ out' = <<>>
            /\ calls' = <<>>]_vars

\* C9 witness: y was fed to a full buffer of x with the cursor inside the
\* line, and was dropped.
C9_Witness ==
    /\ last.op = "feed"
    /\ last.ch = CH_y
    /\ len = CLI_MAX_LINE_LENGTH - 1
    /\ pos > 0
    /\ pos < len
    /\ \A i \in 0 .. (len - 1) : line[i] = CH_x
    /\ out = <<>>

(***************************************************************************)
(* Claims about the editing history, checked under SpecHist.               *)
(***************************************************************************)
\* C10: the length is the number of accepted insertions minus the number of
\* effective backspaces, and when the two are equal the buffer is empty with
\* the cursor at 0.
C10_NetLength ==
    /\ len = ins - del
    /\ (ins = del => len = 0 /\ pos = 0)

\* C10 witness: after at least two insertions and a cursor move into the
\* line, backspaces brought the net to zero.
C10_Witness ==
    /\ ins >= 2
    /\ ins = del
    /\ last.op = "feed"
    /\ last.ch = BS
    /\ line[0] = line[1]
    /\ line[0] # NUL

(***************************************************************************)
(* Claims about execution, checked under SpecLine and Spec.  The tokens of *)
(* a line as the specification defines them: blanks separate tokens, a     *)
(* token that starts with a double quote runs to the next unescaped double *)
(* quote or to the end, and \" inside it stands for a double quote.        *)
(***************************************************************************)
\* The first index at or behind i that holds no blank, or Len(s) + 1.
RECURSIVE SkipWs(_, _)
SkipWs(s, i) == IF i <= Len(s) /\ IsBlank(s[i]) THEN SkipWs(s, i + 1) ELSE i

\* The text of the quoted span that starts at i, behind the opening quote.
RECURSIVE SpanText(_, _)
SpanText(s, i) ==
    IF i > Len(s) \/ s[i] = QUOTE THEN <<>>
    ELSE IF s[i] = BACKSLASH /\ i < Len(s) /\ s[i + 1] = QUOTE
    THEN <<QUOTE>> \o SpanText(s, i + 2)
    ELSE <<s[i]>> \o SpanText(s, i + 1)

\* The text of the bare token that starts at i.
RECURSIVE WordText(_, _)
WordText(s, i) ==
    IF i > Len(s) \/ IsBlank(s[i]) THEN <<>> ELSE <<s[i]>> \o WordText(s, i + 1)

\* Whether s holds a token, and its first token.
HasToken(s) == SkipWs(s, 1) <= Len(s)
FirstToken(s) ==
    IF s[SkipWs(s, 1)] = QUOTE
    THEN SpanText(s, SkipWs(s, 1) + 1)
    ELSE WordText(s, SkipWs(s, 1))

\* Token tok is the long or the short name of an entry of the registry.
Known(tok) ==
    \E i \in 1 .. Len(s_cmd_table) :
        \/ s_cmd_table[i].name = tok
        \/ s_cmd_table[i].short_name = tok

\* A step in which cli_ticks_handler reads byte c in the normal state.
TickedInNormal(c) == state = CLI_STATE_NORMAL /\ last'.op = "tick" /\ last'.ch = c

\* C11 (as claimed): a typed line whose first token is no name of the
\* registry, terminated by CR, invokes no handler and writes CRLF,
\* "Unknown command: ", the first token, CRLF and the prompt.
C11_UnknownReported ==
    [][(/\ TickedInNormal(CR)
        /\ line = CleanSession.line
        /\ HasToken(Content)
        /\ ~Known(FirstToken(Content))) =>
            /\ calls' = <<>>
            /\ out' = STR_CRLF \o STR_UNKNOWN \o FirstToken(Content)
                        \o STR_CRLF \o STR_PROMPT]_vars

\* A step that feeds a line terminator in the normal state.
TerminatedInNormal == FedInNormal(CR) \/ FedInNormal(LF)

\* C12: when the dispatched handler returns a non-zero result, the step
\* writes CRLF, what the handler wrote, "Command returned error" and the
\* prompt, and leaves the session as cli_init leaves it (normal state, zeroed
\* buffer, length and cursor 0) with the registry as it was, so that the next
\* line is handled as a first line is.
C12_ErrorReported ==
    [][(TerminatedInNormal /\ calls' # <<>> /\ calls'[1].ret # 0) =>
            /\ Len(calls') = 1
            /\ out' = STR_CRLF
                        \o HandlerOut(calls'[1].handler, calls'[1].argv, s_cmd_table)
                        \o STR_CMD_ERROR \o STR_PROMPT
            /\ state' = CLI_STATE_NORMAL
            /\ line' = ZeroLine
            /\ len' = 0
            /\ pos' = 0
            /\ s_cmd_table' = s_cmd_table]_vars

\* C12 witness: the handler of entry he returned 1 and the error was reported.
C12_Witness ==
    /\ last.op = "feed"
    /\ last.ch = CR
    /\ Len(calls) = 1
    /\ calls[1].handler = "cmd_user"
    /\ calls[1].argv = <<STR_he>>
    /\ calls[1].ret = 1
    /\ out = STR_CRLF \o STR_CMD_ERROR \o STR_PROMPT
    /\ len = 0

\* C13 (as claimed): a line terminator in the normal state leaves length 0
\* and cursor 0, and when the line holds no token it invokes no handler and
\* writes nothing but CRLF and the prompt.
C13_TerminatorClears ==
    [][TerminatedInNormal =>
            /\ len' = 0
            /\ pos' = 0
            /\ (~HasToken(Content) =>
                    /\ calls' = <<>>
                    /\ out' = STR_CRLF \o STR_PROMPT)]_vars

\* A step that feeds byte c while a CSI sequence is open.
FedInCsi(c) == state = CLI_STATE_CSI /\ last'.op = "feed" /\ last'.ch = c

\* C14 (as claimed): CSI D with the cursor behind 0 moves it left and writes
\* ESC [ D, CSI C with the cursor before the end moves it right and writes
\* ESC [ C; at the edge the cursor stays and nothing is written.
C14_CursorEcho ==
    [][/\ FedInCsi(CH_D) =>
            IF pos > 0
            THEN pos' = pos - 1 /\ out' = <<ESC, LBRACKET, CH_D>>
            ELSE pos' = pos /\ out' = <<>>
       /\ FedInCsi(CH_C) =>
            IF pos < len
            THEN pos' = pos + 1 /\ out' = <<ESC, LBRACKET, CH_C>>
            ELSE pos' = pos /\ out' = <<>>]_vars

(***************************************************************************)
(* Claims about arbitrary byte sequences, checked under SpecKeys.          *)
(***************************************************************************)
\* C15: in every reachable state the cursor is at most the length and the
\* length is at most CLI_MAX_LINE_LENGTH - 1.
C15_CursorInLine ==
    /\ 0 <= pos
    /\ pos <= len
    /\ len <= CLI_MAX_LINE_LENGTH - 1

\* C15 witness: a Tab was fed to a full buffer with the cursor inside it.
C15_Witness ==
    /\ last.op = "feed"
    /\ last.ch = TAB
    /\ state = CLI_STATE_NORMAL
    /\ len = CLI_MAX_LINE_LENGTH - 1
    /\ pos > 0
    /\ pos < len

\* A step that feeds a byte.
Fed == last'.op = "feed"

C19_CompletionLimit ==
    [][(/\ FedInNormal(TAB)
        /\ BlankFree
        /\ Cardinality(Matching) = 1
        /\ Len(s_cmd_table[1].name) > len) =>
            IF Len(s_cmd_table[1].name) <= CLI_MAX_LINE_LENGTH - 1
            THEN /\ Content' = s_cmd_table[1].name
                 /\ len' = Len(s_cmd_table[1].name)
                 /\ pos' = len'
            ELSE /\ out' = <<BEL>>
                 /\ line' = line
                 /\ len' = len
                 /\ pos' = pos]_vars

(***************************************************************************)
(* Claims about cli_ticks_handler, checked under SpecLine.                 *)
(***************************************************************************)
\* C16: a tick reads the input capability once.  With no data it leaves the
\* buffer, the cursor, the length, the input state and the registry alone
\* and writes nothing; with byte b it takes b off the input and leaves the
\* session, the output and the handler calls that cli_process_char(b) leaves
\* from the same state.
C16_TickIsFeed ==
    [][last'.op = "tick" =>
        IF rx = <<>>
        THEN /\ last'.ch = GETCHAR_NONE
             /\ rx' = rx
             /\ line' = line
             /\ pos' = pos
             /\ len' = len
             /\ state' = state
             /\ s_cmd_table' = s_cmd_table
             /\ out' = <<>>
             /\ calls' = <<>>
        ELSE /\ last'.ch = Head(rx)
             /\ rx' = Tail(rx)
             /\ s_cmd_table' = s_cmd_table
             /\ \E ret \in { 0, 1 } :
                    /\ line' = cli_process_char(Session, s_cmd_table, Head(rx), ret).line
                    /\ pos' = cli_process_char(Session, s_cmd_table, Head(rx), ret).pos
                    /\ len' = cli_process_char(Session, s_cmd_table, Head(rx), ret).len
                    /\ state' = cli_process_char(Session, s_cmd_table, Head(rx), ret).state
                    /\ out' = cli_process_char(Session, s_cmd_table, Head(rx), ret).out
                    /\ calls' = cli_process_char(Session, s_cmd_table, Head(rx), ret).calls]_vars

\* C16 witness: a tick found no data behind a line that ran a handler.
C16_Witness ==
    /\ last.op = "tick"
    /\ last.ch = GETCHAR_NONE
    /\ rx = <<>>
    /\ out = <<>>
    /\ len = 0
    /\ state = CLI_STATE_NORMAL

(***************************************************************************)
(* Claims about the formatter, checked under SpecFmt.                      *)
(***************************************************************************)
\* The decimal digits of the natural n, without leading zeros.
RECURSIVE Decimal(_)
Decimal(n) == IF n < 10 THEN <<CH_0 + n>> ELSE Decimal(n \div 10) \o <<CH_0 + (n % 10)>>

\* C17 (as claimed): for every int v, %d writes the decimal digits of |v|,
\* behind one minus sign exactly when v < 0, and stays within defined
\* behaviour.
C17_SignedDecimal ==
    last.op = "printf" =>
        /\ fault = FAULT_NONE
        /\ out = (IF va[1] < 0 THEN <<MINUS>> ELSE <<>>)
                    \o Decimal(IF va[1] < 0 THEN -va[1] ELSE va[1])

(***************************************************************************)
(* Claims about the argument vector, checked under SpecArgs.               *)
(***************************************************************************)
\* C20 (as claimed): when a line is terminated the tokenizer stores at most
\* CLI_MAX_ARGS tokens, and the slot that receives the null marker is one of
\* argv[0 .. CLI_MAX_ARGS - 1], so that no store leaves the vector.
C20_SlotsInside ==
    [][TerminatedInNormal =>
        /\ cli_parse_line(line, CLI_MAX_ARGS).argc <= CLI_MAX_ARGS
        /\ cli_parse_line(line, CLI_MAX_ARGS).null_slot \in 0 .. (CLI_MAX_ARGS - 1)
        /\ fault' = FAULT_NONE]_vars

(***************************************************************************)
(* Further claims about the registry, checked under SpecReg.               *)
(***************************************************************************)
\* The descriptor is null or lacks its name or its handler.
Invalid(cmd) == cmd = NULL_CMD \/ cmd.name = NULL_STR \/ cmd.handler = NULL_FN

\* C21: a register call fails with CLI_ERR_INVALID_PARAM for an invalid
\* descriptor; else with CLI_ERR_TABLE_FULL when CLI_MAX_COMMANDS entries
\* are stored, also when the long name is one of them; else with
\* CLI_ERR_DUPLICATE when the long name is stored; and each failure leaves
\* the count and the stored entries as they were.
C21_FailureOrder ==
    [][\A cmd \in RegPool :
        IsRegisterOf(cmd) =>
            /\ last'.rc =
                 (IF Invalid(cmd) THEN CLI_ERR_INVALID_PARAM
                  ELSE IF cli_get_command_count = CLI_MAX_COMMANDS THEN CLI_ERR_TABLE_FULL
                  ELSE IF cmd.name \in LongNames(s_cmd_table) THEN CLI_ERR_DUPLICATE
                  ELSE CLI_SUCCESS)
            /\ (last'.rc # CLI_SUCCESS =>
                    /\ cli_get_command_count' = cli_get_command_count
                    /\ s_cmd_table' = s_cmd_table)]_vars

\* C21 witness: a stored long name was registered again into a full table and
\* the call returned CLI_ERR_TABLE_FULL.
C21_Witness ==
    /\ last.op = "register"
    /\ last.rc = CLI_ERR_TABLE_FULL
    /\ cli_get_command_count = CLI_MAX_COMMANDS
    /\ last.cmd.name \in LongNames(s_cmd_table)

(***************************************************************************)
(* Further claims about execution and completion, checked under Spec.      *)
(***************************************************************************)
\* The slots whose long or short name is the token tok.
Answering(tok) ==
    { i \in 1 .. Len(s_cmd_table) :
        s_cmd_table[i].name = tok \/ s_cmd_table[i].short_name = tok }

\* C22 (as claimed): a terminated line with at least one token invokes at
\* most one handler: that of the lowest slot whose long or short name is the
\* first token of the line, and none when no slot answers to it.
C22_FirstMatchRuns ==
    [][(TerminatedInNormal /\ HasToken(Content)) =>
        IF Answering(FirstToken(Content)) = {}
        THEN calls' = <<>>
        ELSE /\ Len(calls') = 1
             /\ calls'[1].handler =
                    s_cmd_table[CHOOSE i \in Answering(FirstToken(Content)) :
                                    \A j \in Answering(FirstToken(Content)) : i <= j].handler]_vars

\* The last n bytes of o.
Ending(o, n) == SubSeq(o, Len(o) - n + 1, Len(o))

\* What a redraw writes from the prompt on: the prompt, the buffer content
\* and one backspace for each byte behind the cursor.
RedrawnLine(content, l, p) == STR_PROMPT \o content \o Repeat(BS, l - p)

\* C23 (as claimed): a Tab that completes the buffer or lists the matches
\* ends its output with the prompt, the bytes at [0, len) and len - pos
\* backspaces, whatever was deleted from the line before.
C23_RedrawShowsContent ==
    [][(/\ FedInNormal(TAB)
        /\ BlankFree
        /\ \/ Cardinality(Matching) >= 2
           \/ Cardinality(Matching) = 1 /\ len' > len) =>
            /\ Len(out') >= Len(RedrawnLine(Content', len', pos'))
            /\ Ending(out', Len(RedrawnLine(Content', len', pos')))
                    = RedrawnLine(Content', len', pos')]_vars

\* The scan of a format f from position p ends on a '%' that is the last
\* byte of f and is not the second byte of a conversion.
RECURSIVE LoneTail(_, _)
LoneTail(f, p) ==
    IF p > Len(f) THEN FALSE
    ELSE IF f[p] # PERCENT THEN LoneTail(f, p + 1)
    ELSE IF p = Len(f) THEN TRUE
    ELSE LoneTail(f, p + 2)

\* The text of an int in decimal, with its sign.
SignedDecimal(v) == IF v < 0 THEN <<MINUS>> \o Decimal(-v) ELSE Decimal(v)

\* The text a format f of the bytes %, d, c and others stands for from
\* position p on, with the arguments a from the k-th on: a literal byte is
\* itself, %d and %c take an argument, %% is one '%', and any other
\* %<char> is the two bytes '%' and <char>.
RECURSIVE Rendered(_, _, _, _)
Rendered(f, p, a, k) ==
    IF p > Len(f) THEN <<>>
    ELSE IF f[p] # PERCENT THEN <<f[p]>> \o Rendered(f, p + 1, a, k)
    ELSE IF p = Len(f) THEN <<>>
    ELSE IF f[p + 1] = CH_d THEN SignedDecimal(a[k]) \o Rendered(f, p + 2, a, k + 1)
    ELSE IF f[p + 1] = CH_c THEN <<a[k] % 256>> \o Rendered(f, p + 2, a, k + 1)
    ELSE IF f[p + 1] = PERCENT THEN <<PERCENT>> \o Rendered(f, p + 2, a, k)
    ELSE <<PERCENT, f[p + 1]>> \o Rendered(f, p + 2, a, k)

\* C24 (as claimed): for every format string the formatter reads the format
\* only up to its terminator and stops there, also when the format ends with
\* a lone '%'; and in a format without a lone '%' at its end an unknown
\* specifier %<char> is written as the two bytes '%' and <char>, among the
\* text of the other bytes.
C24_StopsAtTerminator ==
    last.op = "vprintf" =>
        /\ fault = FAULT_NONE
        /\ ~LoneTail(fmt, 1) => out = Rendered(fmt, 1, va, 1)

\* The indices command_at is asked for: every slot, one below the first
\* and one behind the last.
Indices == -1 .. CLI_MAX_COMMANDS

\* C25: across register calls, byte feeds and cli_init calls the count never
\* decreases; an entry command_at(i) has returned is what command_at(i)
\* returns after every further call; and command_at(i) is not-found exactly
\* when i < 0 or i >= count, before and after every call.
C25_AppendOnly ==
    [][/\ cli_get_command_count' >= cli_get_command_count
       /\ \A i \in Indices :
            /\ cli_get_command_dsc(i) # NULL_CMD
                    => cli_get_command_dsc(i)' = cli_get_command_dsc(i)
            /\ cli_get_command_dsc(i) = NULL_CMD
                    <=> (i < 0 \/ i >= cli_get_command_count)
            /\ cli_get_command_dsc(i)' = NULL_CMD
                    <=> (i < 0 \/ i >= cli_get_command_count')]_vars

\* C25 witness: cli_init has been called on a full table, and the first
\* slots still hold the commands registered first.
C25_Witness ==
    /\ last.op = "init"
    /\ cli_get_command_count = CLI_MAX_COMMANDS
    /\ cli_get_command_dsc(-1) = NULL_CMD
    /\ cli_get_command_dsc(0) = Stored(cmd_help2_struct)
    /\ cli_get_command_dsc(1) = Stored(cmd_h_struct)
    /\ cli_get_command_dsc(CLI_MAX_COMMANDS) = NULL_CMD

=============================================================================
